---------------------------- MODULE Spec2Model ----------------------------
(***************************************************************************)
(* A model of web_reader_plugin.py: the sandbox method fetch_webpage and   *)
(* the WebContentExtractor helpers it calls.                               *)
(*                                                                         *)
(* Representation.  A Python string is a sequence of tokens.  Page text is *)
(* a sequence of one-character tokens ("a", " ", "\n").  A URL or an href  *)
(* is a sequence of lexical tokens: <<"https", ":", "//", "example.com",   *)
(* "/about">> is "https://example.com/about"; urlparse, urljoin and the    *)
(* startswith tests work on those tokens.  A parsed page (the soup) is the *)
(* sequence of its elements in document order, each with the index of its  *)
(* parent (0: the root), its attributes and the text it holds directly.    *)
(***************************************************************************)
EXTENDS Integers, Sequences, FiniteSets, TLC

\* ---------------------------------------------------------------- bounds
\* The longest text an element of a generated page holds directly.
MaxText == 4
\* Elements of a generated container page (selector priority).
MaxNodes == 3
\* Anchors of a generated link page, images of a generated image page.
MaxAnchors == 3
MaxImgs == 2
\* Anchors / images a long page holds beyond the extraction limit.
MaxExtra == 2
\* The largest MAX_CONTENT_LENGTH the model's configuration takes (the
\* program's range 1000..100000 is scaled down: only the order between the
\* text's length and the limit matters to the slicing).
MaxContentLen == 3

\* ----------------------------------------------------- program constants
MinTimeout == 5
MaxTimeout == 300
DefaultTimeout == 30
LinkLimit == 10
ImageLimit == 5
LinkTextLimit == 50

\* ------------------------------------------------------------- sequences
Min(S) == CHOOSE x \in S : \A y \in S : x <= y

Range(s) == {s[i] : i \in 1..Len(s)}

\* s[:n]
Prefix(s, n) == SubSeq(s, 1, IF n < Len(s) THEN n ELSE Len(s))

RECURSIVE Flatten(_)
Flatten(ss) == IF ss = <<>> THEN <<>> ELSE Head(ss) \o Flatten(Tail(ss))

RECURSIVE Join(_, _)
Join(ss, sep) ==
    IF ss = <<>> THEN <<>>
    ELSE IF Len(ss) = 1 THEN Head(ss)
    ELSE Head(ss) \o sep \o Join(Tail(ss), sep)

\* The members of a set of indices, ascending.
RECURSIVE Ascending(_)
Ascending(S) ==
    IF S = {} THEN <<>> ELSE LET m == Min(S) IN <<m>> \o Ascending(S \ {m})

\* ------------------------------------------------------------------ text
IsSpace(c) == c \in {" ", "\n"}

RECURSIVE LStrip(_)
LStrip(s) == IF s # <<>> /\ IsSpace(Head(s)) THEN LStrip(Tail(s)) ELSE s

RECURSIVE RStrip(_)
RStrip(s) ==
    IF s # <<>> /\ IsSpace(s[Len(s)]) THEN RStrip(SubSeq(s, 1, Len(s) - 1)) ELSE s

\* str.strip()
Strip(s) == RStrip(LStrip(s))

\* re.sub(r'\s+', ' ', text): every maximal run of whitespace becomes one space.
RECURSIVE CollapseSpace(_)
CollapseSpace(s) ==
    IF s = <<>> THEN <<>>
    ELSE IF IsSpace(Head(s))
         THEN <<" ">> \o CollapseSpace(LStrip(s))
         ELSE <<Head(s)>> \o CollapseSpace(Tail(s))

clean_text(text) == Strip(CollapseSpace(text))

\* ------------------------------------------------------------------ URLs
SchemeNames == {"http", "https", "ftp", "javascript", "mailto"}
Hosts == {"example.com", "other.org", "host"}
\* urllib.parse.uses_relative / uses_netloc, restricted to SchemeNames.
UsesRelative == {"", "http", "https", "ftp"}
UsesNetloc == {"", "http", "https", "ftp"}

\* urlparse(url): the scheme is the name before a leading ':', the netloc
\* the host after '//', the fragment what follows '#', the path the rest.
urlparse(u) ==
    LET hasScheme == Len(u) >= 2 /\ u[1] \in SchemeNames /\ u[2] = ":"
        r1 == IF hasScheme THEN SubSeq(u, 3, Len(u)) ELSE u
        hasSlashes == r1 # <<>> /\ r1[1] = "//"
        hasHost == hasSlashes /\ Len(r1) >= 2 /\ r1[2] \in Hosts
        r2 == IF hasHost THEN SubSeq(r1, 3, Len(r1))
              ELSE IF hasSlashes THEN Tail(r1) ELSE r1
        hashes == {i \in 1..Len(r2) : r2[i] = "#"}
        cut == IF hashes = {} THEN Len(r2) + 1 ELSE Min(hashes)
    IN [scheme |-> IF hasScheme THEN u[1] ELSE "",
        netloc |-> IF hasHost THEN r1[2] ELSE "",
        path |-> SubSeq(r2, 1, cut - 1),
        fragment |-> SubSeq(r2, cut + 1, Len(r2))]

urlunparse(p) ==
    (IF p.scheme # "" THEN <<p.scheme, ":">> ELSE <<>>)
    \o (IF p.netloc # "" THEN <<"//", p.netloc>> ELSE <<>>)
    \o p.path
    \o (IF p.fragment # <<>> THEN <<"#">> \o p.fragment ELSE <<>>)

\* urljoin(base, url).  The hrefs of the model carry absolute paths only, so
\* the merge of a relative path with the base's directory is not modelled.
urljoin(base, url) ==
    IF base = <<>> THEN url
    ELSE IF url = <<>> THEN base
    ELSE LET b == urlparse(base)
             p == urlparse(url)
             scheme == IF p.scheme = "" THEN b.scheme ELSE p.scheme
         IN IF scheme # b.scheme \/ scheme \notin UsesRelative THEN url
            ELSE IF scheme \in UsesNetloc /\ p.netloc # ""
                 THEN urlunparse([p EXCEPT !.scheme = scheme])
            ELSE IF p.path = <<>>
                 THEN urlunparse([scheme |-> scheme, netloc |-> b.netloc,
                                  path |-> b.path, fragment |-> p.fragment])
            ELSE urlunparse([scheme |-> scheme, netloc |-> b.netloc,
                             path |-> p.path, fragment |-> p.fragment])

\* s.startswith(prefix)
StartsWith(s, prefix) ==
    Len(s) >= Len(prefix) /\ SubSeq(s, 1, Len(prefix)) = prefix

\* absolute_url.startswith(('http://', 'https://'))
StartsWithHttp(u) ==
    StartsWith(u, <<"http", ":", "//">>) \/ StartsWith(u, <<"https", ":", "//">>)


\* ------------------------------------------------------------- documents
\* An element: its tag, its parent's index in the page (0: the root), its
\* attributes as <<name, value>> pairs and the text it holds directly.
El(tag, parent, attrs, text) ==
    [tag |-> tag, parent |-> parent, attrs |-> attrs, text |-> text]

HasAttr(n, a) == \E p \in n.attrs : p[1] = a

\* tag.get(a, ''): the attribute's value, '' when the element has none.
Attr(n, a) == IF HasAttr(n, a) THEN (CHOOSE p \in n.attrs : p[1] = a)[2] ELSE <<>>

\* Element i is r or lies inside r.
RECURSIVE Within(_, _, _)
Within(nodes, i, r) ==
    \/ i = r
    \/ nodes[i].parent # 0 /\ Within(nodes, nodes[i].parent, r)

\* The soup: the page's elements and the indices tag.decompose() destroyed.
MakeSoup(doc) == [nodes |-> doc, gone |-> {}]

Alive(soup) == {i \in 1..Len(soup.nodes) : i \notin soup.gone}

\* The strings of r's subtree, in document order.
Strings(soup, r) ==
    LET sub == Ascending({i \in Alive(soup) : Within(soup.nodes, i, r)})
    IN [k \in 1..Len(sub) |-> soup.nodes[sub[k]].text]

\* tag.get_text()
get_text(soup, r) == Flatten(Strings(soup, r))

\* tag.get_text(separator=sep, strip=True): every string stripped, the empty
\* ones dropped, the rest joined by sep.
get_text_strip(soup, r, sep) ==
    LET ss == Strings(soup, r)
        kept == Ascending({k \in 1..Len(ss) : Strip(ss[k]) # <<>>})
    IN Join([k \in 1..Len(kept) |-> Strip(ss[kept[k]])], sep)

\* soup.find(tag, attrs=...): the first living element with the tag and the
\* attributes, 0 (None) when there is none.
Find(soup, tag, attrs) ==
    LET hits == {i \in Alive(soup) :
                    /\ soup.nodes[i].tag = tag
                    /\ attrs \subseteq soup.nodes[i].attrs}
    IN IF hits = {} THEN 0 ELSE Min(hits)

NoTitle == <<"(no title)">>

\* WebContentExtractor.extract_metadata
extract_metadata(soup) ==
    LET title_tag == Find(soup, "title", {})
        d1 == Find(soup, "meta", {<<"name", <<"description">>>>})
        desc_tag == IF d1 # 0 THEN d1
                    ELSE Find(soup, "meta", {<<"property", <<"og:description">>>>})
        keywords_tag == Find(soup, "meta", {<<"name", <<"keywords">>>>})
        a1 == Find(soup, "meta", {<<"name", <<"author">>>>})
        author_tag == IF a1 # 0 THEN a1
                      ELSE Find(soup, "meta", {<<"property", <<"article:author">>>>})
        content(t) == IF t # 0 THEN Strip(Attr(soup.nodes[t], "content")) ELSE <<>>
    IN [title |-> IF title_tag # 0 THEN Strip(get_text(soup, title_tag)) ELSE NoTitle,
        description |-> content(desc_tag),
        keywords |-> content(keywords_tag),
        author |-> content(author_tag)]

RemovedTags ==
    {"script", "style", "nav", "header", "footer", "aside", "iframe", "noscript"}

\* The elements with one of the tags go, what is inside them stays.
DecomposeTagsOnly(soup) ==
    [soup EXCEPT !.gone = soup.gone \cup
        {i \in 1..Len(soup.nodes) : soup.nodes[i].tag \in RemovedTags}]

\* for tag in soup([...]): tag.decompose() -- the elements with one of the
\* tags go, each with everything inside it.
Decompose(soup) ==
    [soup EXCEPT !.gone = soup.gone \cup
        {i \in 1..Len(soup.nodes) :
            \E r \in 1..Len(soup.nodes) :
                soup.nodes[r].tag \in RemovedTags /\ Within(soup.nodes, i, r)}]

\* The list with '.content' moved to the front.
content_selectors_reordered ==
    << [by |-> "class", val |-> "content"],
       [by |-> "tag", val |-> "article"],
       [by |-> "role", val |-> "main"],
       [by |-> "tag", val |-> "main"],
       [by |-> "class", val |-> "article-content"],
       [by |-> "class", val |-> "post-content"],
       [by |-> "class", val |-> "entry-content"],
       [by |-> "id", val |-> "content"] >>

\* The CSS selectors of content_selectors, in the list's order.
content_selectors ==
    << [by |-> "tag", val |-> "article"],
       [by |-> "role", val |-> "main"],
       [by |-> "tag", val |-> "main"],
       [by |-> "class", val |-> "article-content"],
       [by |-> "class", val |-> "post-content"],
       [by |-> "class", val |-> "entry-content"],
       [by |-> "id", val |-> "content"],
       [by |-> "class", val |-> "content"] >>

Matches(n, sel) ==
    CASE sel.by = "tag" -> n.tag = sel.val
      [] sel.by = "role" -> HasAttr(n, "role") /\ Attr(n, "role") = <<sel.val>>
      [] sel.by = "id" -> HasAttr(n, "id") /\ Attr(n, "id") = <<sel.val>>
      [] sel.by = "class" -> sel.val \in Range(Attr(n, "class"))

\* soup.select_one(selector): the first living element it matches, 0 (None).
select_one(soup, sel) ==
    LET hits == {i \in Alive(soup) : Matches(soup.nodes[i], sel)}
    IN IF hits = {} THEN 0 ELSE Min(hits)

\* The loop over content_selectors from position k on: the first selector
\* that matches anything decides.
RECURSIVE SelectFrom(_, _, _)
SelectFrom(soup, selectors, k) ==
    IF k > Len(selectors) THEN 0
    ELSE LET m == select_one(soup, selectors[k])
         IN IF m # 0 THEN m ELSE SelectFrom(soup, selectors, k + 1)

\* What extract_main_content picks in the tree it has cleaned: the selected
\* container, else the body, else 0 (None).
MainElement(soup) ==
    LET m == SelectFrom(soup, content_selectors, 1)
    IN IF m # 0 THEN m ELSE Find(soup, "body", {})

\* WebContentExtractor.extract_main_content: the cleaned tree and the text.
extract_main_content(soup) ==
    LET cleaned == Decompose(soup)
        main_content == MainElement(cleaned)
    IN [soup |-> cleaned,
        text |-> IF main_content = 0 THEN <<>>
                 ELSE clean_text(get_text_strip(cleaned, main_content, <<"\n">>))]

\* ------------------------------------------------------ links and images
NoText == <<"(no text)">>

\* soup.find_all('a', href=True): the living anchors that carry an href, in
\* document order.
Anchors(soup) ==
    Ascending({i \in Alive(soup) :
                  soup.nodes[i].tag = "a" /\ HasAttr(soup.nodes[i], "href")})

\* The loop body without the test against seen_urls.
LinkStepNoDedup(st, soup, a, base_url) ==
    LET href == Strip(Attr(soup.nodes[a], "href"))
        text == Strip(get_text(soup, a))
        absolute_url == urljoin(base_url, href)
    IN IF \/ href = <<>>
          \/ StartsWith(href, <<"#">>)
          \/ StartsWith(href, <<"javascript", ":">>)
       THEN st
       ELSE [seen |-> st.seen \cup {absolute_url},
             list |-> IF StartsWithHttp(absolute_url)
                      THEN Append(st.list,
                                  [text |-> IF text # <<>>
                                            THEN Prefix(text, LinkTextLimit)
                                            ELSE NoText,
                                   url |-> absolute_url])
                      ELSE st.list]

\* One pass of extract_links' loop body over anchor a, from the lists so far.
LinkStep(st, soup, a, base_url) ==
    LET href == Strip(Attr(soup.nodes[a], "href"))
        text == Strip(get_text(soup, a))
        absolute_url == urljoin(base_url, href)
    IN IF \/ href = <<>>
          \/ StartsWith(href, <<"#">>)
          \/ StartsWith(href, <<"javascript", ":">>)
       THEN st
       ELSE IF absolute_url \in st.seen THEN st
       ELSE [seen |-> st.seen \cup {absolute_url},
             list |-> IF StartsWithHttp(absolute_url)
                      THEN Append(st.list,
                                  [text |-> IF text # <<>>
                                            THEN Prefix(text, LinkTextLimit)
                                            ELSE NoText,
                                   url |-> absolute_url])
                      ELSE st.list]

\* The test with > for >=.
LimitExceeded(list, limit) == Len(list) > limit

\* The test at the head of both loops: len(links) >= limit.
LimitReached(list, limit) == Len(list) >= limit

\* soup.find_all('img')
Imgs(soup) == Ascending({i \in Alive(soup) : soup.nodes[i].tag = "img"})

\* str.lower() on the path tokens of the model that have capitals.
Lower(u) ==
    [k \in 1..Len(u) |-> CASE u[k] = "/Icon.gif" -> "/icon.gif"
                           [] u[k] = "/LOGO.png" -> "/logo.png"
                           [] OTHER -> u[k]]

\* The lower-case tokens of the model that hold 'icon', 'logo', '1x1' or 'pixel'.
IconTokens == {"/icon.gif", "/logo.png", "/1x1.gif", "/pixel.gif"}

\* One pass of extract_images' loop body over image g.
ImageStep(st, soup, g, base_url) ==
    LET n == soup.nodes[g]
        src == IF Attr(n, "src") # <<>> THEN Attr(n, "src")
               ELSE IF Attr(n, "data-src") # <<>> THEN Attr(n, "data-src")
               ELSE Attr(n, "data-lazy-src")
        absolute_url == urljoin(base_url, Strip(src))
    IN IF src = <<>> THEN st
       ELSE IF absolute_url \in st.seen \/ ~StartsWithHttp(absolute_url) THEN st
       ELSE IF Range(Lower(absolute_url)) \cap IconTokens # {} THEN st
       ELSE [seen |-> st.seen \cup {absolute_url},
             list |-> Append(st.list, absolute_url)]

\* ------------------------------------------------------------ exceptions
NoExc == [cls |-> "none", status |-> 0, text |-> <<>>]

Exc(cls, status, text) == [cls |-> cls, status |-> status, text |-> text]

\* The base classes of the exception classes that reach the handlers
\* (requests.exceptions and the builtins).
Bases(cls) ==
    CASE cls = "ConnectTimeout" -> {"ConnectionError", "Timeout"}
      [] cls = "ReadTimeout" -> {"Timeout"}
      [] cls = "Timeout" -> {"RequestException"}
      [] cls = "ConnectionError" -> {"RequestException"}
      [] cls = "HTTPError" -> {"RequestException"}
      [] cls = "TooManyRedirects" -> {"RequestException"}
      [] cls = "InvalidSchema" -> {"RequestException"}
      [] cls = "RequestException" -> {"Exception"}
      [] cls = "LookupError" -> {"Exception"}
      [] cls = "RecursionError" -> {"Exception"}
      [] OTHER -> {}

RECURSIVE IsInstance(_, _)
IsInstance(cls, target) ==
    cls = target \/ \E b \in Bases(cls) : IsInstance(b, target)

\* ---------------------------------------------------------------- results
NoResult == [kind |-> "none"]

\* An error or warning string: the message's fixed text, and the number and
\* the text formatted into it (0 and '' when it has none).
Message(kind, msg, num, str) ==
    [kind |-> kind, msg |-> msg, num |-> num, str |-> str]

\* The except clauses without the last one, except Exception.
ExceptHandlerNoCatchAll(e, timeout) ==
    IF IsInstance(e.cls, "Timeout")
    THEN [result |-> Message("error", "request timed out (N s)", timeout, <<>>),
          propagated |-> NoExc]
    ELSE IF IsInstance(e.cls, "ConnectionError")
    THEN [result |-> Message("error", "connection failed", 0, <<>>),
          propagated |-> NoExc]
    ELSE IF IsInstance(e.cls, "HTTPError")
    THEN [result |-> Message("error", "HTTP N - server returned an error",
                             e.status, <<>>),
          propagated |-> NoExc]
    ELSE IF IsInstance(e.cls, "RequestException")
    THEN [result |-> Message("error", "request exception - S", 0, e.text),
          propagated |-> NoExc]
    ELSE [result |-> NoResult, propagated |-> e]

\* The except clauses of fetch_webpage, in their order: what the call
\* returns for exception e, and the exception that escapes (NoExc: none).
ExceptHandler(e, timeout) ==
    IF IsInstance(e.cls, "Timeout")
    THEN [result |-> Message("error", "request timed out (N s)", timeout, <<>>),
          propagated |-> NoExc]
    ELSE IF IsInstance(e.cls, "ConnectionError")
    THEN [result |-> Message("error", "connection failed", 0, <<>>),
          propagated |-> NoExc]
    ELSE IF IsInstance(e.cls, "HTTPError")
    THEN [result |-> Message("error", "HTTP N - server returned an error",
                             e.status, <<>>),
          propagated |-> NoExc]
    ELSE IF IsInstance(e.cls, "RequestException")
    THEN [result |-> Message("error", "request exception - S", 0, e.text),
          propagated |-> NoExc]
    ELSE IF IsInstance(e.cls, "Exception")
    THEN [result |-> Message("error", "T: S", 0, <<e.cls>> \o e.text),
          propagated |-> NoExc]
    ELSE [result |-> NoResult, propagated |-> e]

\* ---------------------------------------------------------------- reports
Truncated == "... (content truncated)"
NotFound == "(no main content found)"

\* The section with the marker set already at max_length characters.
PreviewMarksEarly(main_text, max_length) ==
    IF main_text # <<>>
    THEN Prefix(main_text, max_length)
         \o (IF Len(main_text) >= max_length THEN <<Truncated>> ELSE <<>>)
    ELSE <<NotFound>>

\* The main-text section of the report: main_text[:max_length], the marker
\* after it when the text is longer, the placeholder when there is no text.
Preview(main_text, max_length) ==
    IF main_text # <<>>
    THEN Prefix(main_text, max_length)
         \o (IF Len(main_text) > max_length THEN <<Truncated>> ELSE <<>>)
    ELSE <<NotFound>>

\* The same section in the simplified mode, which has no placeholder.
SimplePreview(text, max_length) ==
    Prefix(text, max_length)
    \o (IF Len(text) > max_length THEN <<Truncated>> ELSE <<>>)

\* The report of the full mode.  A field that is '' or [] stands for a
\* line or a section the output leaves out.
Report(url, metadata, response, encoding, main_text, max_length, links, images) ==
    [kind |-> "report", mode |-> "full", url |-> url,
     title |-> metadata.title, status |-> response.status, encoding |-> encoding,
     description |-> metadata.description, author |-> metadata.author,
     keywords |-> metadata.keywords,
     content |-> Preview(main_text, max_length), total |-> Len(main_text),
     links |-> links, images |-> images]

\* The simplified mode on the page's markup: the text of the first <title>
\* that holds text only, then every script and style block dropped, every
\* tag stripped and the whitespace collapsed.
SimpleReport(url, response, encoding, max_length) ==
    LET doc == response.doc
        titles == {i \in 1..Len(doc) :
                      /\ doc[i].tag = "title" /\ doc[i].text # <<>>
                      /\ \A j \in 1..Len(doc) : doc[j].parent # i}
        blocks == {i \in 1..Len(doc) :
                      \E r \in 1..Len(doc) :
                          doc[r].tag \in {"script", "style"} /\ Within(doc, i, r)}
        rest == Ascending((1..Len(doc)) \ blocks)
        text == clean_text(Flatten([k \in 1..Len(rest) |-> doc[rest[k]].text]))
    IN [kind |-> "report", mode |-> "simplified", url |-> url,
        title |-> IF titles # {} THEN Strip(doc[Min(titles)].text) ELSE NoTitle,
        status |-> response.status, encoding |-> encoding,
        description |-> <<>>, author |-> <<>>, keywords |-> <<>>,
        content |-> SimplePreview(text, max_length), total |-> Len(text),
        links |-> <<>>, images |-> <<>>]

\* ------------------------------------------------------------------ state
VARIABLES
    requests,     \* whether the requests package was imported
    bs4,          \* whether the bs4 package was imported
    config,       \* the plugin's WebReaderConfig
    pc,           \* where the invocation of fetch_webpage stands
    url,          \* the url argument: [type, s]
    timeout_arg,  \* the timeout argument: <<>> (None) or <<n>>
    timeout,      \* the local timeout, reassigned before the request
    gets,         \* the calls of requests.get made so far
    response,     \* the response of the GET
    encoding,     \* response.encoding once settled
    soup,         \* the parsed page
    metadata,     \* extract_metadata's result
    main_text,    \* extract_main_content's result
    links,        \* extract_links' links and seen_urls
    link_i,       \* the next anchor of extract_links' loop
    images,       \* extract_images' images and seen_urls
    img_i,        \* the next image of extract_images' loop
    exc,          \* the exception raised in the try block (NoExc: none)
    propagated,   \* the exception that left fetch_webpage (NoExc: none)
    result        \* what fetch_webpage returned

vars == <<requests, bs4, config, pc, url, timeout_arg, timeout, gets, response,
          encoding, soup, metadata, main_text, links, link_i, images, img_i,
          exc, propagated, result>>

page == <<soup, metadata, main_text, links, link_i, images, img_i>>

NoResponse == [status |-> 0, encoding |-> "", apparent |-> "", doc |-> <<>>]
NoMetadata == [title |-> <<>>, description |-> <<>>, keywords |-> <<>>, author |-> <<>>]
Empty == [seen |-> {}, list |-> <<>>]

\* The state when the plugin is loaded and nothing has been called.
InitWith(Imports, Configs) ==
    /\ \E im \in Imports : requests = im.requests /\ bs4 = im.bs4
    /\ config \in Configs
    /\ pc = "idle"
    /\ url = [type |-> "NoneType", s |-> <<>>]
    /\ timeout_arg = <<>>
    /\ timeout = <<>>
    /\ gets = <<>>
    /\ response = NoResponse
    /\ encoding = ""
    /\ soup = MakeSoup(<<>>)
    /\ metadata = NoMetadata
    /\ main_text = <<>>
    /\ links = Empty
    /\ link_i = 1
    /\ images = Empty
    /\ img_i = 1
    /\ exc = NoExc
    /\ propagated = NoExc
    /\ result = NoResult

\* return r
Return(r) ==
    /\ result' = r
    /\ pc' = "done"
    /\ UNCHANGED <<exc, propagated>>

\* raise e inside the try block: the except clauses decide what comes back.
Raise(e, t) ==
    LET h == ExceptHandler(e, t)
    IN /\ exc' = e
       /\ result' = h.result
       /\ propagated' = h.propagated
       /\ pc' = "done"

\* fetch_webpage(_ctx, url, timeout) is called.
Call(Urls, Timeouts) ==
    /\ pc = "idle"
    /\ url' \in Urls
    /\ timeout_arg' \in Timeouts
    /\ timeout' = timeout_arg'
    /\ pc' = "deps"
    /\ UNCHANGED <<requests, bs4, config, gets, response, encoding, page,
                   exc, propagated, result>>

\* The dependency checks.
CheckDeps ==
    /\ pc = "deps"
    /\ IF ~requests
       THEN Return(Message("error", "requests is not installed", 0, <<>>))
       ELSE IF ~bs4
       THEN Return(Message("warning",
                "BeautifulSoup is not installed, simplified mode will be used",
                0, <<>>))
       ELSE /\ pc' = "validate"
            /\ UNCHANGED <<exc, propagated, result>>
    /\ UNCHANGED <<requests, bs4, config, url, timeout_arg, timeout, gets,
                   response, encoding, page>>

\* urlparse raises ValueError on a bracket that is no IPv6 literal.
UrlparseRaises(u) == "[" \in Range(u)

\* all([parsed.scheme, parsed.netloc])
HasSchemeAndNetloc(u) ==
    LET parsed == urlparse(u) IN parsed.scheme # "" /\ parsed.netloc # ""

\* The argument check and the URL format check.
Validate ==
    /\ pc = "validate"
    /\ IF url.type # "str" \/ url.s = <<>>
       THEN Return(Message("error", "URL must not be empty", 0, <<>>))
       ELSE IF UrlparseRaises(url.s)
       THEN Return(Message("error", "URL parsing failed - S", 0, <<"Invalid IPv6 URL">>))
       ELSE IF ~HasSchemeAndNetloc(url.s)
       THEN Return(Message("error", "invalid URL S, needs http:// or https://",
                           0, url.s))
       ELSE /\ pc' = "get"
            /\ UNCHANGED <<exc, propagated, result>>
    /\ UNCHANGED <<requests, bs4, config, url, timeout_arg, timeout, gets,
                   response, encoding, page>>

\* The default whatever the caller gave.
EffectiveTimeoutDefaultOnly(t, default) == default

\* timeout or config.DEFAULT_TIMEOUT
EffectiveTimeout(t, default) == IF t # <<>> /\ t[1] # 0 THEN t[1] ELSE default

\* What requests.get and raise_for_status can do with the URL: a response
\* of Responses, an error status, or an exception of the request.  requests
\* has adapters for http and https only and raises InvalidSchema otherwise.
FetchOutcomes(u, Responses) ==
    IF urlparse(u).scheme \in {"http", "https"}
    THEN {[exc |-> NoExc, response |-> r] : r \in Responses}
         \cup {[exc |-> Exc("HTTPError", st, <<>>),
                response |-> [NoResponse EXCEPT !.status = st]] : st \in {404, 500}}
         \cup {[exc |-> Exc(c, 0, <<c>>), response |-> NoResponse] :
                  c \in {"ConnectTimeout", "ReadTimeout", "ConnectionError",
                         "TooManyRedirects"}}
    ELSE {[exc |-> Exc("InvalidSchema", 0, <<"No connection adapters were found">>),
           response |-> NoResponse]}

\* The configuration is read, the GET is made and its status checked.
Get(Responses) ==
    /\ pc = "get"
    /\ timeout' = <<EffectiveTimeout(timeout, config.DEFAULT_TIMEOUT)>>
    /\ gets' = Append(gets, [url |-> url.s, timeout |-> timeout'[1],
                             user_agent |-> config.USER_AGENT,
                             allow_redirects |-> TRUE])
    /\ \E o \in FetchOutcomes(url.s, Responses) :
          IF o.exc # NoExc
          THEN Raise(o.exc, timeout'[1]) /\ UNCHANGED response
          ELSE /\ response' = o.response
               /\ pc' = "parse"
               /\ UNCHANGED <<exc, propagated, result>>
    /\ UNCHANGED <<requests, bs4, config, url, timeout_arg, encoding, page>>

\* response.encoding or response.apparent_encoding or 'utf-8'
SettledEncoding(r) ==
    IF r.encoding # "" THEN r.encoding
    ELSE IF r.apparent # "" THEN r.apparent ELSE "utf-8"

\* The unexpected failures of decoding and parsing the body.
ParseFailures == {NoExc, Exc("LookupError", 0, <<"unknown encoding">>)}

\* The encoding is settled and the body parsed; without bs4 the simplified
\* report is built from the markup and returned.
Parse ==
    /\ pc = "parse"
    /\ encoding' = SettledEncoding(response)
    /\ \E f \in ParseFailures :
          IF f # NoExc
          THEN Raise(f, timeout[1]) /\ UNCHANGED soup
          ELSE IF bs4
          THEN /\ soup' = MakeSoup(response.doc)
               /\ pc' = "metadata"
               /\ UNCHANGED <<exc, propagated, result>>
          ELSE /\ Return(SimpleReport(url.s, response, encoding',
                                      config.MAX_CONTENT_LENGTH))
               /\ UNCHANGED soup
    /\ UNCHANGED <<requests, bs4, config, url, timeout_arg, timeout, gets,
                   response, metadata, main_text, links, link_i, images, img_i>>

\* metadata = extractor.extract_metadata(soup)
Metadata ==
    /\ pc = "metadata"
    /\ metadata' = extract_metadata(soup)
    /\ pc' = "main"
    /\ UNCHANGED <<requests, bs4, config, url, timeout_arg, timeout, gets,
                   response, encoding, soup, main_text, links, link_i, images,
                   img_i, exc, propagated, result>>

\* The unexpected failures of walking the tree.
ExtractFailures == {NoExc, Exc("RecursionError", 0, <<"maximum recursion depth exceeded">>)}

\* main_text = extractor.extract_main_content(soup), which edits the tree.
MainContent ==
    /\ pc = "main"
    /\ \E f \in ExtractFailures :
          IF f # NoExc
          THEN Raise(f, timeout[1]) /\ UNCHANGED <<soup, main_text>>
          ELSE /\ soup' = extract_main_content(soup).soup
               /\ main_text' = extract_main_content(soup).text
               /\ pc' = "links"
               /\ UNCHANGED <<exc, propagated, result>>
    /\ UNCHANGED <<requests, bs4, config, url, timeout_arg, timeout, gets,
                   response, encoding, metadata, links, link_i, images, img_i>>

\* extract_links(soup, url, limit=10), one pass of its loop at a time; it is
\* not called at all when config.EXTRACT_LINKS is off.
ExtractLinks ==
    /\ pc = "links"
    /\ IF /\ config.EXTRACT_LINKS
          /\ link_i <= Len(Anchors(soup))
          /\ ~LimitReached(links.list, LinkLimit)
       THEN /\ links' = LinkStep(links, soup, Anchors(soup)[link_i], url.s)
            /\ link_i' = link_i + 1
            /\ pc' = "links"
       ELSE /\ pc' = "images"
            /\ UNCHANGED <<links, link_i>>
    /\ UNCHANGED <<requests, bs4, config, url, timeout_arg, timeout, gets,
                   response, encoding, soup, metadata, main_text, images, img_i,
                   exc, propagated, result>>

\* extract_images(soup, url, limit=5), one pass of its loop at a time; it is
\* not called at all when config.EXTRACT_IMAGES is off.
ExtractImages ==
    /\ pc = "images"
    /\ IF /\ config.EXTRACT_IMAGES
          /\ img_i <= Len(Imgs(soup))
          /\ ~LimitReached(images.list, ImageLimit)
       THEN /\ images' = ImageStep(images, soup, Imgs(soup)[img_i], url.s)
            /\ img_i' = img_i + 1
            /\ pc' = "images"
       ELSE /\ pc' = "format"
            /\ UNCHANGED <<images, img_i>>
    /\ UNCHANGED <<requests, bs4, config, url, timeout_arg, timeout, gets,
                   response, encoding, soup, metadata, main_text, links, link_i,
                   exc, propagated, result>>

\* The report is put together and returned.
Format ==
    /\ pc = "format"
    /\ Return(Report(url.s, metadata, response, encoding, main_text,
                     config.MAX_CONTENT_LENGTH, links.list, images.list))
    /\ UNCHANGED <<requests, bs4, config, url, timeout_arg, timeout, gets,
                   response, encoding, page>>

\* ----------------------------------------------------------------- inputs
\* A str argument, and the arguments that are no str.
Str(s) == [type |-> "str", s |-> s]
NotStr == {[type |-> "NoneType", s |-> <<>>], [type |-> "int", s |-> <<>>]}

PageUrl == <<"https", ":", "//", "example.com", "/page">>

\* "", "not-a-url", "http://", "//example.com/x", "mailto:a@b", "http://[",
\* "http://example.com/page", "https://example.com/page", "ftp://host/x".
Urls ==
    NotStr \cup
    { Str(<<>>), Str(<<"not-a-url">>), Str(<<"http", ":", "//">>),
      Str(<<"//", "example.com", "/x">>), Str(<<"mailto", ":", "a@b">>),
      Str(<<"http", ":", "//", "[">>),
      Str(<<"http", ":", "//", "example.com", "/page">>), Str(PageUrl),
      Str(<<"ftp", ":", "//", "host", "/x">>) }

\* None, 0, and values below, inside and above the configuration's range.
Timeouts == {<<>>, <<0>>, <<1>>, <<60>>, <<301>>}

AllImports == [requests : BOOLEAN, bs4 : BOOLEAN]
BothImported == {[requests |-> TRUE, bs4 |-> TRUE]}

UserAgent == "Mozilla/5.0"

\* WebReaderConfig with its fields in their declared ranges.
Configs(DefaultTimeouts, MaxLengths, Flags) ==
    [DEFAULT_TIMEOUT : DefaultTimeouts, MAX_CONTENT_LENGTH : MaxLengths,
     USER_AGENT : {UserAgent}, EXTRACT_LINKS : Flags, EXTRACT_IMAGES : Flags]

\* The 200 responses that carry one of the pages.
Responses(Docs, Encodings) ==
    {[status |-> 200, encoding |-> e[1], apparent |-> e[2], doc |-> d] :
        d \in Docs, e \in Encodings}

Declared == {<<"utf-8", "ISO-8859-1">>}
Encodings == Declared \cup {<<"", "gbk">>, <<"", "">>}

Letter == <<"a", "b", "c", "d", "e", "f", "g", "h">>

\* All sequences over S of length at most n.
SeqsUpTo(S, n) == UNION {[1..k -> S] : k \in 0..n}

\* A few whole pages.
SampleDocs ==
    { <<>>,
      << El("title", 0, {}, <<"a">>), El("body", 0, {}, <<"b", " ", "c">>) >>,
      << El("body", 0, {}, <<"a", "b">>), El("script", 1, {}, <<"c">>),
         El("a", 1, {<<"href", <<"/about">>>>}, <<"d">>),
         El("img", 1, {<<"src", <<"/a.png">>>>}, <<>>) >> }

\* Pages that differ in their text: a body, or an article and a paragraph
\* in it, holding any text of up to MaxText characters.
TextChars == {"a", " ", "\n"}

TextDocs ==
    {<<>>}
    \cup {<<El("body", 0, {}, t)>> : t \in SeqsUpTo(TextChars, MaxText)}
    \cup {<<El("article", 0, {}, t[1]), El("p", 1, {}, t[2])>> :
             t \in SeqsUpTo(TextChars, MaxText \div 2)
                   \X SeqsUpTo(TextChars, MaxText \div 2)}

\* Pages of up to MaxNodes containers, each at the top or inside the one
\* before it, each holding one letter.
Containers ==
    { [tag |-> "article", attrs |-> {}],
      [tag |-> "div", attrs |-> {<<"role", <<"main">>>>}],
      [tag |-> "main", attrs |-> {}],
      [tag |-> "div", attrs |-> {<<"class", <<"article-content">>>>}],
      [tag |-> "div", attrs |-> {<<"class", <<"post-content">>>>}],
      [tag |-> "section", attrs |-> {<<"class", <<"wide", "entry-content">>>>}],
      [tag |-> "div", attrs |-> {<<"id", <<"content">>>>}],
      [tag |-> "div", attrs |-> {<<"class", <<"content">>>>}],
      [tag |-> "body", attrs |-> {}],
      [tag |-> "aside", attrs |-> {}] }

SelectDocs ==
    { [i \in DOMAIN c |->
          El(c[i][1].tag, IF c[i][2] /\ i > 1 THEN i - 1 ELSE 0,
             c[i][1].attrs, <<Letter[i]>>)] :
      c \in SeqsUpTo(Containers \X BOOLEAN, MaxNodes) }

\* A page from a sequence of pieces, each an element or a wrapper element
\* with one element inside it.
RECURSIVE Assemble(_, _)
Assemble(pieces, done) ==
    IF pieces = <<>> THEN done
    ELSE LET pc1 == Head(pieces)
             at == Len(done)
             new == IF pc1.wrap = ""
                    THEN <<El(pc1.tag, 0, pc1.attrs, pc1.text)>>
                    ELSE <<El(pc1.wrap, 0, {}, <<>>),
                           El(pc1.tag, at + 1, pc1.attrs, pc1.text)>>
         IN Assemble(Tail(pieces), done \o new)

Piece(wrap, tag, attrs, text) ==
    [wrap |-> wrap, tag |-> tag, attrs |-> attrs, text |-> text]

\* Pages of up to MaxAnchors anchors.
AnchorPieces ==
    { Piece("", "a", {<<"href", <<>>>>}, <<"a">>),
      Piece("", "a", {<<"href", <<"#", "top">>>>}, <<"b">>),
      Piece("", "a", {<<"href", <<"javascript", ":", "void(0)">>>>}, <<"c">>),
      Piece("", "a", {<<"href", <<" ", "/about", " ">>>>}, <<" ", "d">>),
      Piece("", "a", {<<"href", <<"https", ":", "//", "example.com", "/about">>>>}, <<>>),
      Piece("", "a", {<<"href", <<"ftp", ":", "//", "example.com", "/f">>>>}, <<"e">>),
      Piece("", "a", {<<"href", <<"//", "other.org", "/x">>>>}, <<"f">>),
      Piece("", "a", {}, <<"g">>),
      Piece("nav", "a", {<<"href", <<"/about">>>>}, <<"h">>),
      Piece("footer", "a", {<<"href", <<"/legal">>>>}, <<"h">>) }

LinkDocs == {Assemble(ps, <<>>) : ps \in SeqsUpTo(AnchorPieces, MaxAnchors)}

\* Pages of up to MaxImgs images.
ImgPieces ==
    { Piece("", "img", {<<"src", <<"/a.png">>>>}, <<>>),
      Piece("", "img", {<<"src", <<>>>>, <<"data-src", <<"/b.png">>>>}, <<>>),
      Piece("", "img", {<<"data-lazy-src", <<"https", ":", "//", "example.com", "/a.png">>>>}, <<>>),
      Piece("", "img", {<<"alt", <<"x">>>>}, <<>>),
      Piece("", "img", {<<"src", <<"/LOGO.png">>>>}, <<>>),
      Piece("", "img", {<<"src", <<"//", "other.org", "/pixel.gif">>>>}, <<>>),
      Piece("", "img", {<<"src", <<"ftp", ":", "//", "example.com", "/f">>>>}, <<>>),
      Piece("noscript", "img", {<<"src", <<"/c.png">>>>}, <<>>) }

ImgDocs == {Assemble(ps, <<>>) : ps \in SeqsUpTo(ImgPieces, MaxImgs)}

\* Pages with more anchors and images than the limits take: k anchors, each
\* written twice when dup, then m images, all with URLs of their own.
NumPath == << "/p1", "/p2", "/p3", "/p4", "/p5", "/p6", "/p7", "/p8", "/p9",
              "/p10", "/p11", "/p12", "/p13", "/p14", "/p15", "/p16" >>

Long(k, dup, m) ==
    LET reps == IF dup THEN 2 ELSE 1
    IN [i \in 1..(reps * k) |->
           El("a", 0, {<<"href", <<NumPath[(i + reps - 1) \div reps]>>>>}, <<"a">>)]
       \o [i \in 1..m |-> El("img", 0, {<<"src", <<NumPath[i]>>>>}, <<>>)]

LongDocs ==
    { Long(k, dup, m) : k \in (LinkLimit - 1)..(LinkLimit + MaxExtra),
                        dup \in BOOLEAN,
                        m \in (ImageLimit - 1)..(ImageLimit + MaxExtra) }

\* Pages with a title, a description, an anchor and an image inside a
\* <header>, at the top of the page, or both.
HeadPieces(wrap, t, path, png) ==
    << Piece(wrap, "title", {}, <<t>>),
       Piece(wrap, "meta", {<<"name", <<"description">>>>, <<"content", <<t>>>>}, <<>>),
       Piece(wrap, "a", {<<"href", <<path>>>>}, <<t>>),
       Piece(wrap, "img", {<<"src", <<png>>>>}, <<>>) >>

Pick(ps, S) == LET idx == Ascending(S) IN [k \in 1..Len(idx) |-> ps[idx[k]]]

MetaDocs ==
    { Assemble(Pick(HeadPieces("header", "h", "/about", "/a.png"), H)
               \o Pick(HeadPieces("", "t", "/x", "/b.png"), T), <<>>) :
      H \in SUBSET (1..4), T \in SUBSET (1..4) }

\* The responses each specification draws from.
SampleResponses == Responses(SampleDocs, Encodings)
TextResponses == Responses(TextDocs, Declared)
SelectResponses == Responses(SelectDocs, Declared)
LinkResponses ==
    Responses(LinkDocs \cup ImgDocs \cup LongDocs \cup MetaDocs, Declared)

\* ---------------------------------------------------------- specifications
\* Every combination of imports, arguments and outcomes of the request, on a
\* few pages.
Init ==
    InitWith(AllImports,
             Configs({MinTimeout, DefaultTimeout, MaxTimeout}, {MaxContentLen},
                     BOOLEAN))

Next ==
    \/ Call(Urls, Timeouts)
    \/ CheckDeps
    \/ Validate
    \/ Get(SampleResponses)
    \/ Parse
    \/ Metadata
    \/ MainContent
    \/ ExtractLinks
    \/ ExtractImages
    \/ Format

Spec == Init /\ [][Next]_vars

\* One good call with every MAX_CONTENT_LENGTH, on the pages that differ in
\* their text.
InitText ==
    InitWith(BothImported,
             Configs({DefaultTimeout}, 1..MaxContentLen, {TRUE}))

NextText ==
    \/ Call({Str(PageUrl)}, {<<>>})
    \/ CheckDeps
    \/ Validate
    \/ Get(TextResponses)
    \/ Parse
    \/ Metadata
    \/ MainContent
    \/ ExtractLinks
    \/ ExtractImages
    \/ Format

SpecText == InitText /\ [][NextText]_vars

\* One good call on the pages that differ in their containers.
InitSelect ==
    InitWith(BothImported, Configs({DefaultTimeout}, {MaxContentLen}, {TRUE}))

NextSelect ==
    \/ Call({Str(PageUrl)}, {<<>>})
    \/ CheckDeps
    \/ Validate
    \/ Get(SelectResponses)
    \/ Parse
    \/ Metadata
    \/ MainContent
    \/ ExtractLinks
    \/ ExtractImages
    \/ Format

SpecSelect == InitSelect /\ [][NextSelect]_vars

\* One good call on the pages that differ in their anchors, images and
\* header.
InitLinks ==
    InitWith(BothImported, Configs({DefaultTimeout}, {MaxContentLen}, BOOLEAN))

NextLinks ==
    \/ Call({Str(PageUrl)}, {<<>>})
    \/ CheckDeps
    \/ Validate
    \/ Get(LinkResponses)
    \/ Parse
    \/ Metadata
    \/ MainContent
    \/ ExtractLinks
    \/ ExtractImages
    \/ Format

SpecLinks == InitLinks /\ [][NextLinks]_vars

\* ------------------------------------------------------------ properties
\* The url argument names an http or https page: a str with one of the two
\* schemes and a host.
IsHttpUrl(u) ==
    /\ u.type = "str"
    /\ ~UrlparseRaises(u.s)
    /\ urlparse(u.s).scheme \in {"http", "https"}
    /\ urlparse(u.s).netloc # ""

\* The url argument is empty, no str, or does not parse into a scheme and a
\* host.
IsInvalidUrl(u) ==
    \/ u.type # "str"
    \/ u.s = <<>>
    \/ UrlparseRaises(u.s)
    \/ urlparse(u.s).scheme = ""
    \/ urlparse(u.s).netloc = ""

ValidationErrors ==
    {"URL must not be empty", "URL parsing failed - S",
     "invalid URL S, needs http:// or https://"}

\* C1: without bs4, a call with a good URL still makes the GET and, when the
\* fetch succeeds, returns the simplified report (title, stripped text, no
\* links, no images) instead of stopping before the request.
C1_DegradedModeFetches ==
    (pc = "done" /\ requests /\ ~bs4 /\ IsHttpUrl(url)) =>
        /\ Len(gets) = 1
        /\ (exc = NoExc =>
               /\ result.kind = "report"
               /\ result.mode = "simplified"
               /\ result.links = <<>>
               /\ result.images = <<>>)

\* The kinds of failure of C2, and the message each kind is reported with.
FailureKind(e) ==
    CASE e.cls \in {"Timeout", "ConnectTimeout", "ReadTimeout"} -> "timeout"
      [] e.cls = "ConnectionError" -> "connection"
      [] e.cls = "HTTPError" -> "http"
      [] e.cls \in {"TooManyRedirects", "InvalidSchema", "RequestException"} -> "request"
      [] OTHER -> "unexpected"

KindMessage(k) ==
    CASE k = "timeout" -> "request timed out (N s)"
      [] k = "connection" -> "connection failed"
      [] k = "http" -> "HTTP N - server returned an error"
      [] k = "request" -> "request exception - S"
      [] k = "unexpected" -> "T: S"

FetchFailures ==
    {Exc(c, 0, <<c>>) : c \in {"Timeout", "ConnectTimeout", "ReadTimeout",
                               "ConnectionError", "TooManyRedirects",
                               "InvalidSchema", "RequestException"}}
    \cup {Exc("HTTPError", st, <<>>) : st \in {404, 500}}

C3_InvalidUrlRejected ==
    (pc = "done" /\ requests /\ IsInvalidUrl(url)) =>
        /\ gets = <<>>
        /\ result.kind = "error"
        /\ result.msg \in ValidationErrors

\* C4: every GET that is issued is for an http or https URL.
C4_OnlyHttpFetched ==
    \A i \in 1..Len(gets) : urlparse(gets[i].url).scheme \in {"http", "https"}

\* C9 as claimed: the timeout of every GET lies in [5, 300], and is the
\* caller's timeout when one is given and DEFAULT_TIMEOUT otherwise.
C9_TimeoutInRange ==
    \A i \in 1..Len(gets) :
        /\ gets[i].timeout \in 5..300
        /\ gets[i].timeout = IF timeout_arg # <<>> THEN timeout_arg[1]
                             ELSE config.DEFAULT_TIMEOUT

\* C9 as amended: the timeout of every GET is the caller's timeout when one
\* is given and is not 0, whatever its value; it is DEFAULT_TIMEOUT, which
\* lies in [5, 300], when none or 0 is given.
C9_TimeoutPassed ==
    \A i \in 1..Len(gets) :
        IF timeout_arg # <<>> /\ timeout_arg[1] # 0
        THEN gets[i].timeout = timeout_arg[1]
        ELSE /\ gets[i].timeout = config.DEFAULT_TIMEOUT
             /\ gets[i].timeout \in 5..300

\* A GET went out with the caller's timeout of 301 seconds.
C9_Witness ==
    /\ Len(gets) = 1
    /\ timeout_arg = <<301>>
    /\ gets[1].timeout = 301

\* C5 as claimed: the report's main-text section is the whole main text,
\* without the marker, when the text is no longer than MAX_CONTENT_LENGTH,
\* and its first MAX_CONTENT_LENGTH characters and then the marker when it
\* is longer; the total is the length of the whole text.
C5_SectionIsText ==
    (pc = "done" /\ result.kind = "report") =>
        LET max_length == config.MAX_CONTENT_LENGTH
        IN /\ Len(main_text) <= max_length => result.content = main_text
           /\ Len(main_text) > max_length =>
                 result.content = SubSeq(main_text, 1, max_length) \o <<Truncated>>
           /\ result.total = Len(main_text)

\* C5 as amended: as claimed for a main text that is not empty; for an
\* empty main text the section is the placeholder line.  The total is the
\* length of the whole text in every case.
C5_SectionIsTextOrPlaceholder ==
    (pc = "done" /\ result.kind = "report") =>
        LET max_length == config.MAX_CONTENT_LENGTH
        IN /\ main_text = <<>> => result.content = <<NotFound>>
           /\ (main_text # <<>> /\ Len(main_text) <= max_length) =>
                 /\ result.content = main_text
                 /\ Truncated \notin Range(result.content)
           /\ Len(main_text) > max_length =>
                 result.content = SubSeq(main_text, 1, max_length) \o <<Truncated>>
           /\ result.total = Len(main_text)

\* A report whose main text was cut: the marker follows MAX_CONTENT_LENGTH
\* characters and the total counts more.
C5_Witness ==
    /\ pc = "done"
    /\ result.kind = "report"
    /\ Len(result.content) = config.MAX_CONTENT_LENGTH + 1
    /\ result.content[Len(result.content)] = Truncated
    /\ result.total > config.MAX_CONTENT_LENGTH

\* The URL an anchor with an href stands for, and whether extract_links
\* passes the anchor over (an empty href, a fragment, a javascript: URI).
Resolved(a) == urljoin(url.s, Strip(Attr(soup.nodes[a], "href")))

PassedOver(a) ==
    LET href == Strip(Attr(soup.nodes[a], "href"))
    IN \/ href = <<>>
       \/ href[1] = "#"
       \/ (Len(href) >= 2 /\ href[1] = "javascript" /\ href[2] = ":")

\* The URLs of the anchors extract_links scans, in document order, with ''
\* for an anchor it passes over.
Occurrences ==
    LET anchors == Anchors(soup)
    IN [k \in 1..Len(anchors) |->
           IF PassedOver(anchors[k]) THEN <<>> ELSE Resolved(anchors[k])]

\* C6: at every step of extract_links, no resolved URL is listed twice, every
\* entry is an http or https URL, and the entries stand in the order in
\* which their URLs first occur in the document.
C6_LinksUniqueHttpOrdered ==
    LET L == links.list
        occ == Occurrences
        first == [i \in 1..Len(L) |->
                     {k \in 1..Len(occ) :
                         occ[k] = L[i].url /\ \A h \in 1..(k - 1) : occ[h] # L[i].url}]
    IN /\ \A i, j \in 1..Len(L) : i < j => L[i].url # L[j].url
       /\ \A i \in 1..Len(L) : urlparse(L[i].url).scheme \in {"http", "https"}
       /\ \A i \in 1..Len(L) : first[i] # {}
       /\ \A i, j \in 1..Len(L) :
             i < j => \A k \in first[i] : \A h \in first[j] : k < h

\* A finished scan of a page where two anchors with different hrefs stand
\* for one URL, which is listed once, next to another link.
C6_Witness ==
    /\ pc = "done"
    /\ result.kind = "report"
    /\ Len(result.links) >= 2
    /\ \E a, b \in Range(Anchors(soup)) :
          /\ a < b
          /\ Attr(soup.nodes[a], "href") # Attr(soup.nodes[b], "href")
          /\ ~PassedOver(a)
          /\ Resolved(a) = Resolved(b)
          /\ \E i \in 1..Len(result.links) : result.links[i].url = Resolved(a)

\* C7: at every step of the two loops and in the report there are at most
\* 10 links and 5 images, and a scan is over once its limit is reached: the
\* last anchor (image) scanned is the one that gave the last entry.
C7_LimitsHold ==
    /\ Len(links.list) <= 10
    /\ Len(images.list) <= 5
    /\ result.kind = "report" =>
          Len(result.links) <= 10 /\ Len(result.images) <= 5
    /\ Len(links.list) >= 10 =>
          Resolved(Anchors(soup)[link_i - 1]) = links.list[Len(links.list)].url
    /\ Len(images.list) >= 5 =>
          urljoin(url.s, Strip(Attr(soup.nodes[Imgs(soup)[img_i - 1]], "src")))
              = images.list[Len(images.list)]

\* A report with 10 links and 5 images of a page that has anchors and
\* images left that were never scanned.
C7_Witness ==
    /\ pc = "done"
    /\ result.kind = "report"
    /\ Len(result.links) = 10
    /\ Len(result.images) = 5
    /\ link_i <= Len(Anchors(soup))
    /\ img_i <= Len(Imgs(soup))

\* The selectors in the order the claim gives them.
ClaimedOrder ==
    << [by |-> "tag", val |-> "article"], [by |-> "role", val |-> "main"],
       [by |-> "tag", val |-> "main"], [by |-> "class", val |-> "article-content"],
       [by |-> "class", val |-> "post-content"],
       [by |-> "class", val |-> "entry-content"],
       [by |-> "id", val |-> "content"], [by |-> "class", val |-> "content"] >>

\* The element the claim names in tree t: the first match of the earliest
\* selector that matches anything in t, else the body, else 0 (none).
Claimed(t) ==
    LET matching == {k \in 1..Len(ClaimedOrder) :
                        \E i \in Alive(t) : Matches(t.nodes[i], ClaimedOrder[k])}
        bodies == {i \in Alive(t) : t.nodes[i].tag = "body"}
    IN IF matching # {}
       THEN Min({i \in Alive(t) : Matches(t.nodes[i], ClaimedOrder[Min(matching)])})
       ELSE IF bodies # {} THEN Min(bodies) ELSE 0

\* The text extract_main_content returns for element el of the cleaned tree.
TextOf(el) ==
    IF el = 0 THEN <<>> ELSE clean_text(get_text_strip(soup, el, <<"\n">>))

MainContentDone ==
    pc \in {"links", "images", "format"} \/ (pc = "done" /\ result.kind = "report")

\* C8 as claimed: the main text is the text of the element matched by the
\* earliest selector that matches anything in the document, of the body
\* when none matches, and empty when there is no body.
C8_EarliestSelectorOfDocument ==
    MainContentDone => main_text = TextOf(Claimed(MakeSoup(response.doc)))

\* C8 as amended: the same, with the selectors and the body looked up in
\* what is left of the document once the script, style, nav, header,
\* footer, aside, iframe and noscript elements are removed with their
\* contents.
C8_EarliestSelectorOfCleanedTree ==
    MainContentDone => main_text = TextOf(Claimed(soup))

\* An article that stands after a .content div, neither inside the other,
\* gave the main text.
C8_Witness ==
    /\ MainContentDone
    /\ \E i, j \in Alive(soup) :
          /\ j < i
          /\ soup.nodes[i].tag = "article"
          /\ "content" \in Range(Attr(soup.nodes[j], "class"))
          /\ ~Within(soup.nodes, i, j)
          /\ main_text = soup.nodes[i].text

\* Element i of page doc is, or lies inside, one of the eight kinds of
\* element the main-content step removes.
InsideRemoved(doc, i) ==
    \E r \in 1..Len(doc) :
        /\ doc[r].tag \in {"script", "style", "nav", "header", "footer",
                           "aside", "iframe", "noscript"}
        /\ Within(doc, i, r)

\* The title and the description of the page as it was fetched.
FirstTitle(doc) ==
    LET ts == {i \in 1..Len(doc) : doc[i].tag = "title"}
    IN IF ts = {} THEN NoTitle ELSE Strip(get_text(MakeSoup(doc), Min(ts)))

FirstDescription(doc) ==
    LET ds == {i \in 1..Len(doc) :
                  doc[i].tag = "meta" /\ <<"name", <<"description">>>> \in doc[i].attrs}
    IN IF ds = {} THEN <<>> ELSE Strip(Attr(doc[Min(ds)], "content"))

\* C10: the steps run in the order metadata, main content, links, images;
\* the main-content step has removed the eight kinds of element from the
\* shared tree before links and images are scanned, so no link and no image
\* of the scan comes from inside one of them, while the title and the meta
\* fields are those of the document as fetched.
C10_RemovedBeforeScan ==
    LET doc == response.doc
    IN /\ pc \in {"metadata", "main"} =>
             /\ soup.gone = {}
             /\ links = Empty /\ link_i = 1
             /\ images = Empty /\ img_i = 1
       /\ pc = "links" => images = Empty /\ img_i = 1
       /\ (pc = "main" \/ MainContentDone) =>
             /\ metadata.title = FirstTitle(doc)
             /\ metadata.description = FirstDescription(doc)
       /\ MainContentDone =>
             \A i \in 1..Len(doc) : InsideRemoved(doc, i) => i \in soup.gone
       /\ \A k \in 1..Len(links.list) :
             \E a \in 1..Len(doc) :
                 /\ doc[a].tag = "a"
                 /\ ~InsideRemoved(doc, a)
                 /\ urljoin(url.s, Strip(Attr(doc[a], "href"))) = links.list[k].url
       /\ \A k \in 1..Len(images.list) :
             \E g \in 1..Len(doc) :
                 /\ doc[g].tag = "img"
                 /\ ~InsideRemoved(doc, g)
                 /\ \E at \in {"src", "data-src", "data-lazy-src"} :
                       urljoin(url.s, Strip(Attr(doc[g], at))) = images.list[k]
       /\ (pc = "done" /\ result.kind = "report") =>
             /\ result.title = FirstTitle(doc)
             /\ result.description = FirstDescription(doc)
             /\ result.links = links.list
             /\ result.images = images.list

\* A report of a page whose <header> holds the title, an anchor and an image
\* and whose body holds another anchor and image: the title is the header's,
\* the links and images are the body's alone.
C10_Witness ==
    LET doc == response.doc
    IN /\ pc = "done"
       /\ result.kind = "report"
       /\ result.title = <<"h">>
       /\ Len(result.links) = 1
       /\ Len(result.images) = 1
       /\ \E a, g \in 1..Len(doc) :
             /\ doc[a].tag = "a" /\ InsideRemoved(doc, a)
             /\ doc[g].tag = "img" /\ InsideRemoved(doc, g)
             /\ urljoin(url.s, Strip(Attr(doc[a], "href"))) # result.links[1].url
             /\ urljoin(url.s, Strip(Attr(doc[g], "src"))) # result.images[1]

=============================================================================
